---- MODULE Spec2Model ----
(***************************************************************************)
(* A model of the xuid package: a 16-byte UUID with an optional string     *)
(* prefix, its base58 text form (String / Parse), its JSON form            *)
(* (MarshalJSON / UnmarshalJSON) and its SQL form (Value / Scan).          *)
(*                                                                         *)
(* A Go string is a sequence of bytes, so strings are modelled as          *)
(* sequences of byte values 0..255 (ASCII codes for the printable ones);   *)
(* a uuid.UUID is a sequence of exactly 16 bytes.                          *)
(***************************************************************************)
EXTENDS Integers, Sequences, FiniteSets, TLC

\* ------------------------------------------------------------------------
\* Bounds of the model
\* ------------------------------------------------------------------------

\* longest prefix handed to a constructor or to SetPrefix
MaxPrefixLen == 2

\* ------------------------------------------------------------------------
\* Byte-sequence helpers
\* ------------------------------------------------------------------------

\* the sequence a, a+1, ..., b
Range(a, b) == [i \in 1..(b - a + 1) |-> a + i - 1]

\* n copies of the byte c
Rep(n, c) == [i \in 1..n |-> c]

Reverse(s) == [i \in 1..Len(s) |-> s[Len(s) + 1 - i]]

\* s[from:] of Go, with from a 0-based offset
From(s, from) == SubSeq(s, from + 1, Len(s))

\* s[:to] of Go, with to a 0-based end offset
Upto(s, to) == SubSeq(s, 1, to)

\* the number of leading elements of s equal to c
RECURSIVE LeadingCount(_, _)
LeadingCount(s, c) ==
    IF s = <<>> \/ Head(s) # c THEN 0 ELSE 1 + LeadingCount(Tail(s), c)

\* a big-endian digit string without its leading zero digits (a big.Int)
StripZeros(d) == From(d, LeadingCount(d, 0))

\* One step of big.Int division: the big-endian digits d in base `base`
\* divided by the small number `by`; acc.q collects the quotient digits and
\* acc.r is the running remainder.
RECURSIVE DivMod(_, _, _, _)
DivMod(d, base, by, acc) ==
    IF d = <<>> THEN acc
    ELSE LET cur == acc.r * base + Head(d)
         IN  DivMod(Tail(d), base, by,
                    [q |-> Append(acc.q, cur \div by), r |-> cur % by])

\* The digits of the number d (big-endian, base `from`) in base `to`, least
\* significant digit first; the empty sequence for zero.
RECURSIVE Digits(_, _, _)
Digits(d, from, to) ==
    LET n == StripZeros(d)
    IN  IF n = <<>> THEN <<>>
        ELSE LET qr == DivMod(n, from, to, [q |-> <<>>, r |-> 0])
             IN  <<qr.r>> \o Digits(qr.q, from, to)

\* ------------------------------------------------------------------------
\* The UUIDs of the model
\* ------------------------------------------------------------------------

\* uuid.Nil, the all-zero UUID
Nil == Rep(16, 0)

\* 550e8400-e29b-41d4-a716-446655440000, a version 4 UUID
UUIDv4 == <<85, 14, 132, 0, 226, 155, 65, 212, 167, 22, 68, 102, 85, 68, 0, 0>>

\* a version 7 UUID (48 bits of milliseconds first)
UUIDv7 == <<1, 147, 161, 178, 195, 212, 126, 95, 128, 1, 2, 3, 4, 5, 6, 7>>

\* the version 7 UUID of one millisecond later
UUIDv7Next == <<1, 147, 161, 178, 195, 213, 112, 0, 128, 0, 0, 0, 0, 0, 0, 1>>

\* a version 1 UUID
UUIDv1 == <<255, 238, 221, 204, 187, 170, 17, 239, 144, 1, 2, 3, 4, 5, 6, 7>>

\* a UUID with leading zero bytes that is not the nil UUID
UUIDLow == Rep(15, 0) \o <<1>>

SampleUUIDs == {Nil, UUIDv4, UUIDv7, UUIDv7Next, UUIDv1, UUIDLow}

\* ------------------------------------------------------------------------
\* github.com/btcsuite/btcd/btcutil/base58, as used by String and Parse
\* ------------------------------------------------------------------------

\* "123456789ABCDEFGHJKLMNPQRSTUVWXYZabcdefghijkmnopqrstuvwxyz"
alphabet ==
    Range(49, 57) \o Range(65, 72) \o Range(74, 78) \o Range(80, 90)
        \o Range(97, 107) \o Range(109, 122)

\* the character of the digit zero, '1'
alphabetIdx0 == alphabet[1]

\* the table b58 of the digit of every byte, 255 for a byte outside the
\* alphabet
b58 ==
    [c \in 0..255 |->
        IF \E i \in DOMAIN alphabet : alphabet[i] = c
        THEN (CHOOSE i \in DOMAIN alphabet : alphabet[i] = c) - 1
        ELSE 255]

\* base58.Encode: the base-58 digits of the number the bytes spell, most
\* significant first, after one '1' for every leading zero byte.
encodeBytes(b) ==
    LET d == Digits(b, 256, 58)
    IN  Rep(LeadingCount(b, 0), alphabetIdx0)
            \o Reverse([i \in 1..Len(d) |-> alphabet[d[i] + 1]])

\* base58.Decode: the empty byte string when a character is outside the
\* alphabet; otherwise one zero byte for every leading '1', followed by the
\* bytes of the number the digits spell (none for the number zero).
decodeString(s) ==
    IF \E i \in DOMAIN s : b58[s[i]] = 255 THEN <<>>
    ELSE Rep(LeadingCount(s, alphabetIdx0), 0)
            \o Reverse(Digits([i \in DOMAIN s |-> b58[s[i]]], 58, 256))

\* The codec on the UUIDs of the model, computed once: encodeBytes of each
\* UUID, and decodeString of each of these encodings.
encoded == [b \in SampleUUIDs |-> encodeBytes(b)]

decoded == [s \in {encoded[b] : b \in SampleUUIDs} |-> decodeString(s)]

base58Encode(b) == IF b \in DOMAIN encoded THEN encoded[b] ELSE encodeBytes(b)

base58Decode(s) == IF s \in DOMAIN decoded THEN decoded[s] ELSE decodeString(s)

\* ------------------------------------------------------------------------
\* github.com/google/uuid, as used by the package
\* ------------------------------------------------------------------------

\* uuid.FromBytes: a UUID from a byte slice of exactly 16 bytes
FromBytes(b) ==
    IF Len(b) # 16 THEN [id |-> Nil, err |-> "invalid UUID"]
    ELSE [id |-> b, err |-> "nil"]

\* UUID.Version: the high four bits of byte 6
Version(u) == u[7] \div 16

\* Version.String: "VERSION_" followed by the number (a version is below 16)
VersionString(v) == <<"VERSION_", v>>

\* the lower-case hexadecimal digit of n
hexdigit(n) == IF n < 10 THEN 48 + n ELSE 87 + n

\* the two hexadecimal digits of every byte of b
RECURSIVE encodeHex(_)
encodeHex(b) ==
    IF b = <<>> THEN <<>>
    ELSE <<hexdigit(Head(b) \div 16), hexdigit(Head(b) % 16)>> \o encodeHex(Tail(b))

\* UUID.String: xxxxxxxx-xxxx-xxxx-xxxx-xxxxxxxxxxxx
UUIDString(u) ==
    encodeHex(SubSeq(u, 1, 4)) \o <<45>> \o encodeHex(SubSeq(u, 5, 6)) \o <<45>>
        \o encodeHex(SubSeq(u, 7, 8)) \o <<45>> \o encodeHex(SubSeq(u, 9, 10))
        \o <<45>> \o encodeHex(SubSeq(u, 11, 16))

\* the value of a hexadecimal digit, 255 when the character is none
xvalue(c) ==
    IF c \in 48..57 THEN c - 48
    ELSE IF c \in 97..102 THEN c - 87
    ELSE IF c \in 65..70 THEN c - 55
    ELSE 255

\* xtob: the byte two hexadecimal digits spell, 256 when one is no digit
xtob(c1, c2) ==
    IF xvalue(c1) = 255 \/ xvalue(c2) = 255 THEN 256
    ELSE xvalue(c1) * 16 + xvalue(c2)

\* the bytes spelled by the digit pairs at the 0-based offsets `at` of s
hexBytes(s, at) == [i \in DOMAIN at |-> xtob(s[at[i] + 1], s[at[i] + 2])]

\* the ASCII lower-case form of a string (strings.EqualFold on ASCII)
lower(s) == [i \in DOMAIN s |-> IF s[i] \in 65..90 THEN s[i] + 32 ELSE s[i]]

\* "urn:uuid:"
urnPrefix == <<117, 114, 110, 58, 117, 117, 105, 100, 58>>

\* the dashed form, s being at least 36 bytes long
parseDashed(s) ==
    IF s[9] # 45 \/ s[14] # 45 \/ s[19] # 45 \/ s[24] # 45
    THEN [id |-> Nil, err |-> "invalid UUID format"]
    ELSE LET b == hexBytes(s, <<0, 2, 4, 6, 9, 11, 14, 16, 19, 21, 24, 26, 28, 30, 32, 34>>)
         IN  IF \E i \in DOMAIN b : b[i] = 256
             THEN [id |-> Nil, err |-> "invalid UUID format"]
             ELSE [id |-> b, err |-> "nil"]

\* uuid.Parse: the 36-byte dashed form, the same after "urn:uuid:", the same
\* between two more bytes (braces), or 32 hexadecimal digits
uuidParse(s) ==
    IF Len(s) = 36 THEN parseDashed(s)
    ELSE IF Len(s) = 45
         THEN IF lower(Upto(s, 9)) # urnPrefix
              THEN [id |-> Nil, err |-> "invalid urn prefix"]
              ELSE parseDashed(From(s, 9))
    ELSE IF Len(s) = 38 THEN parseDashed(From(s, 1))
    ELSE IF Len(s) = 32
         THEN LET b == hexBytes(s, [i \in 1..16 |-> 2 * (i - 1)])
              IN  IF \E i \in DOMAIN b : b[i] = 256
                  THEN [id |-> Nil, err |-> "invalid UUID format"]
                  ELSE [id |-> b, err |-> "nil"]
    ELSE [id |-> Nil, err |-> "invalid UUID length"]

\* ------------------------------------------------------------------------
\* xuid.go: the identifier and its text form
\* ------------------------------------------------------------------------

\* type XUID struct { uuid uuid.UUID; prefix string }
XUID(id, prefix) == [uuid |-> id, prefix |-> prefix]

\* XUID{}, the zero identifier returned with an error
ZeroXUID == XUID(Nil, <<>>)

\* errors.go
ErrParse == "XUID string cannot be parsed"

\* NewWith wraps the UUID and the prefix as they are; it never fails
NewWith(id, prefix) == [xid |-> XUID(id, prefix), err |-> "nil"]

\* NilUUID
NilUUID == NewWith(Nil, <<>>)

GetUUID(x) == x.uuid

GetPrefix(x) == x.prefix

IsSortable(x) == VersionString(Version(GetUUID(x))) = <<"VERSION_", 7>>

\* An IsRandom that is the negation of IsSortable
IsRandomUnlessSortable(x) == ~IsSortable(x)

IsRandom(x) == VersionString(Version(GetUUID(x))) = <<"VERSION_", 4>>

\* A SetPrefix that builds the identifier anew, *x = XUID{prefix: prefix}
SetPrefixFresh(x, prefix) == [uuid |-> Nil, prefix |-> prefix]

\* A SetPrefix that leaves the prefix alone when it is given the empty string
SetPrefixIfGiven(x, prefix) ==
    IF prefix = <<>> THEN x ELSE [x EXCEPT !.prefix = prefix]

\* SetPrefix replaces the prefix of the receiver
SetPrefix(x, prefix) == [x EXCEPT !.prefix = prefix]

\* A String that encodes the 16 bytes in the reverse order
StringLittleEndian(x) ==
    IF x.prefix = <<>> THEN base58Encode(Reverse(x.uuid))
    ELSE x.prefix \o <<95>> \o base58Encode(Reverse(x.uuid))

\* String: base58 of the 16 bytes, after prefix and "_" when there is a prefix
String(x) ==
    IF x.prefix = <<>> THEN base58Encode(x.uuid)
    ELSE x.prefix \o <<95>> \o base58Encode(x.uuid)

\* An Equal that compares the UUIDs alone
EqualByUUID(x, y) == x.uuid = y.uuid

Equal(x, y) == String(x) = String(y)

\* strings.LastIndex(s, "_"-like single byte c): the 0-based offset of the
\* last c in s, or -1
RECURSIVE LastIndex(_, _)
LastIndex(s, c) ==
    IF s = <<>> THEN -1
    ELSE IF s[Len(s)] = c THEN Len(s) - 1
    ELSE LastIndex(Upto(s, Len(s) - 1), c)

\* strings.Index: the 0-based offset of the first c in s, or -1
RECURSIVE Index(_, _)
Index(s, c) ==
    IF s = <<>> THEN -1
    ELSE IF Head(s) = c THEN 0
    ELSE IF Index(Tail(s), c) = -1 THEN -1
    ELSE 1 + Index(Tail(s), c)

\* A Parse that splits at the first "_"
ParseFirstSeparator(idstr) ==
    LET underscoreIndex == Index(idstr, 95)
        uuidstr == From(idstr, underscoreIndex + 1)
        prefix == IF underscoreIndex >= 0 THEN Upto(idstr, underscoreIndex) ELSE <<>>
        parsed == FromBytes(base58Decode(uuidstr))
    IN  IF parsed.err # "nil" THEN [xid |-> ZeroXUID, err |-> ErrParse]
        ELSE NewWith(parsed.id, prefix)

\* A Parse that takes what is before the first "_" as the prefix and what
\* is after the last "_" as the payload, as of strings.Split(idstr, "_")
ParseOuterParts(idstr) ==
    LET underscoreIndex == LastIndex(idstr, 95)
        uuidstr == From(idstr, underscoreIndex + 1)
        prefix == IF underscoreIndex >= 0 THEN Upto(idstr, Index(idstr, 95))
                  ELSE <<>>
        parsed == FromBytes(base58Decode(uuidstr))
    IN  IF parsed.err # "nil" THEN [xid |-> ZeroXUID, err |-> ErrParse]
        ELSE NewWith(parsed.id, prefix)

\* A Parse that returns what it has split off along with the error
ParseKeepsPrefix(idstr) ==
    LET underscoreIndex == LastIndex(idstr, 95)
        uuidstr == From(idstr, underscoreIndex + 1)
        prefix == IF underscoreIndex >= 0 THEN Upto(idstr, underscoreIndex) ELSE <<>>
        parsed == FromBytes(base58Decode(uuidstr))
    IN  IF parsed.err # "nil" THEN [xid |-> XUID(Nil, prefix), err |-> ErrParse]
        ELSE NewWith(parsed.id, prefix)

\* Parse splits at the last "_" and decodes what follows it
Parse(idstr) ==
    LET underscoreIndex == LastIndex(idstr, 95)
        uuidstr == From(idstr, underscoreIndex + 1)
        prefix == IF underscoreIndex >= 0 THEN Upto(idstr, underscoreIndex) ELSE <<>>
        parsed == FromBytes(base58Decode(uuidstr))
    IN  IF parsed.err # "nil" THEN [xid |-> ZeroXUID, err |-> ErrParse]
        ELSE NewWith(parsed.id, prefix)

IsValid(idstr) == Parse(idstr).err = "nil"

\* An IsEmpty that compares the whole identifier with XUID{}
IsEmptyStruct(xid) == xid = ZeroXUID

IsEmpty(xid) == xid.uuid = Nil

\* ------------------------------------------------------------------------
\* encoding/json on a Go string, as used by MarshalJSON and UnmarshalJSON
\* ------------------------------------------------------------------------

\* a UTF-8 continuation byte
cont(s, i) == Len(s) >= i /\ s[i] \in 128..191

\* utf8.DecodeRune: the length of the well-formed UTF-8 sequence s starts
\* with, 0 when it starts with none (RuneError of width 1)
utf8Size(s) ==
    LET b == s[1]
    IN  IF b < 128 THEN 1
        ELSE IF b \in 194..223 THEN (IF cont(s, 2) THEN 2 ELSE 0)
        ELSE IF b \in 224..239
             THEN IF /\ cont(s, 2) /\ cont(s, 3)
                     /\ (b = 224 => s[2] >= 160)
                     /\ (b = 237 => s[2] <= 159)
                  THEN 3 ELSE 0
        ELSE IF b \in 240..244
             THEN IF /\ cont(s, 2) /\ cont(s, 3) /\ cont(s, 4)
                     /\ (b = 240 => s[2] >= 144)
                     /\ (b = 244 => s[2] <= 143)
                  THEN 4 ELSE 0
        ELSE 0

\* utf8.AppendRune for a rune of the basic plane
utf8Encode(r) ==
    IF r < 128 THEN <<r>>
    ELSE IF r < 2048 THEN <<192 + (r \div 64), 128 + (r % 64)>>
    ELSE <<224 + (r \div 4096), 128 + ((r \div 64) % 64), 128 + (r % 64)>>

\* the escape \uXXXX of a rune of the basic plane, in lower-case digits
escapeU(r) ==
    <<92, 117, hexdigit(r \div 4096), hexdigit((r \div 256) % 16),
      hexdigit((r \div 16) % 16), hexdigit(r % 16)>>

\* what json.Marshal writes for the string s between the quotes (the
\* encoder escapes for HTML): quote and backslash after a backslash, the
\* short escapes of \b \f \n \r \t, \u00XX for the other control characters
\* and for < > &, the escape of U+FFFD for a byte that is no UTF-8, the
\* escapes of U+2028 and U+2029 for the two line separators, every other
\* character as it is.
RECURSIVE appendString(_)
appendString(s) ==
    IF s = <<>> THEN <<>>
    ELSE LET b == Head(s)
             n == utf8Size(s)
         IN  IF b < 128
             THEN (IF b \in {92, 34} THEN <<92, b>>
                   ELSE IF b = 8 THEN <<92, 98>>
                   ELSE IF b = 12 THEN <<92, 102>>
                   ELSE IF b = 10 THEN <<92, 110>>
                   ELSE IF b = 13 THEN <<92, 114>>
                   ELSE IF b = 9 THEN <<92, 116>>
                   ELSE IF b < 32 \/ b \in {60, 62, 38} THEN escapeU(b)
                   ELSE <<b>>) \o appendString(Tail(s))
             ELSE IF n = 0 THEN escapeU(65533) \o appendString(Tail(s))
             ELSE IF SubSeq(s, 1, n) = <<226, 128, 168>>
                  THEN escapeU(8232) \o appendString(From(s, n))
             ELSE IF SubSeq(s, 1, n) = <<226, 128, 169>>
                  THEN escapeU(8233) \o appendString(From(s, n))
             ELSE SubSeq(s, 1, n) \o appendString(From(s, n))

\* json.Marshal of a Go string: a JSON string literal; it never fails
jsonMarshal(s) == [data |-> <<34>> \o appendString(s) \o <<34>>, err |-> "nil"]

\* the JSON white space
isSpace(c) == c \in {32, 9, 13, 10}

\* data without the white space around it
RECURSIVE trimLeft(_)
trimLeft(s) == IF s # <<>> /\ isSpace(Head(s)) THEN trimLeft(Tail(s)) ELSE s

trim(s) == Reverse(trimLeft(Reverse(trimLeft(s))))

\* the character an escape letter stands for, 256 when it is no escape
unescaped(c) ==
    IF c \in {34, 92, 47} THEN c
    ELSE IF c = 98 THEN 8
    ELSE IF c = 102 THEN 12
    ELSE IF c = 110 THEN 10
    ELSE IF c = 114 THEN 13
    ELSE IF c = 116 THEN 9
    ELSE 256

\* the rune of four hexadecimal digits, -1 when one is no digit
getu4(h) ==
    IF Len(h) < 4 \/ \E i \in 1..4 : xvalue(h[i]) = 255 THEN -1
    ELSE xvalue(h[1]) * 4096 + xvalue(h[2]) * 256 + xvalue(h[3]) * 16 + xvalue(h[4])

\* The scanner and unquote of encoding/json on what follows the opening
\* quote: the decoded string up to the closing quote, which has to end the
\* document. A control character, an unknown escape and a missing closing
\* quote are syntax errors; a byte that is no UTF-8 and a lone surrogate
\* escape decode to U+FFFD. (A surrogate pair is outside the inputs of the
\* model.)
RECURSIVE unquote(_, _)
unquote(s, out) ==
    IF s = <<>> THEN [ok |-> FALSE, str |-> <<>>]
    ELSE LET b == Head(s)
         IN  IF b = 34 THEN [ok |-> Len(s) = 1, str |-> IF Len(s) = 1 THEN out ELSE <<>>]
             ELSE IF b < 32 THEN [ok |-> FALSE, str |-> <<>>]
             ELSE IF b = 92
                  THEN IF Len(s) < 2 THEN [ok |-> FALSE, str |-> <<>>]
                       ELSE IF s[2] = 117
                            THEN LET r == getu4(SubSeq(s, 3, 6))
                                 IN  IF r < 0 THEN [ok |-> FALSE, str |-> <<>>]
                                     ELSE unquote(From(s, 6),
                                            out \o utf8Encode(IF r \in 55296..57343
                                                              THEN 65533 ELSE r))
                       ELSE IF unescaped(s[2]) = 256 THEN [ok |-> FALSE, str |-> <<>>]
                       ELSE unquote(From(s, 2), Append(out, unescaped(s[2])))
             ELSE IF b < 128 THEN unquote(Tail(s), Append(out, b))
             ELSE IF utf8Size(s) = 0 THEN unquote(Tail(s), out \o utf8Encode(65533))
             ELSE unquote(From(s, utf8Size(s)), out \o SubSeq(s, 1, utf8Size(s)))

\* a JSON integer: an optional minus, then 0 or digits not starting with 0
isInteger(s) ==
    LET d == IF s # <<>> /\ Head(s) = 45 THEN Tail(s) ELSE s
    IN  /\ d # <<>>
        /\ \A i \in DOMAIN d : d[i] \in 48..57
        /\ (Len(d) > 1 => d[1] # 48)

\* json.Unmarshal(data, &res) with res a Go string that starts empty: a
\* string literal is decoded into res; null leaves res as it is and is no
\* error; a number, a boolean, an array or an object is an
\* UnmarshalTypeError; anything else is a SyntaxError. (Numbers of the
\* inputs are integers, arrays and objects are empty.)
jsonUnmarshal(data) ==
    LET d == trim(data)
    IN  IF d = <<110, 117, 108, 108>> THEN [res |-> <<>>, err |-> "nil"]
        ELSE IF d \in {<<116, 114, 117, 101>>, <<102, 97, 108, 115, 101>>}
             THEN [res |-> <<>>, err |-> "UnmarshalTypeError"]
        ELSE IF isInteger(d) THEN [res |-> <<>>, err |-> "UnmarshalTypeError"]
        ELSE IF d \in {<<91, 93>>, <<123, 125>>}
             THEN [res |-> <<>>, err |-> "UnmarshalTypeError"]
        ELSE IF d # <<>> /\ Head(d) = 34
             THEN LET q == unquote(Tail(d), <<>>)
                  IN  IF q.ok THEN [res |-> q.str, err |-> "nil"]
                      ELSE [res |-> <<>>, err |-> "SyntaxError"]
        ELSE [res |-> <<>>, err |-> "SyntaxError"]

\* A MarshalJSON that puts String() between quotes as it is
MarshalJSONRaw(x) == [data |-> <<34>> \o String(x) \o <<34>>, err |-> "nil"]

\* MarshalJSON: the JSON string of String()
MarshalJSON(x) == jsonMarshal(String(x))

\* An UnmarshalJSON that drops the error of json.Unmarshal
UnmarshalJSONNoTypeCheck(x, data) ==
    LET u == jsonUnmarshal(data)
        p == Parse(u.res)
    IN  IF p.err # "nil" THEN [x |-> x, err |-> p.err]
        ELSE [x |-> [x EXCEPT !.uuid = p.xid.uuid, !.prefix = p.xid.prefix],
              err |-> "nil"]

\* An UnmarshalJSON that parses into the receiver, *x, err = Parse(res)
UnmarshalJSONIntoReceiver(x, data) ==
    LET u == jsonUnmarshal(data)
        p == Parse(u.res)
    IN  IF u.err # "nil" THEN [x |-> x, err |-> u.err]
        ELSE [x |-> p.xid, err |-> p.err]

\* UnmarshalJSON: the receiver after the call and the error; the receiver
\* is assigned only when the document is a string that Parse accepts
UnmarshalJSON(x, data) ==
    LET u == jsonUnmarshal(data)
        p == Parse(u.res)
    IN  IF u.err # "nil" THEN [x |-> x, err |-> u.err]
        ELSE IF p.err # "nil" THEN [x |-> x, err |-> p.err]
        ELSE [x |-> [x EXCEPT !.uuid = p.xid.uuid, !.prefix = p.xid.prefix],
              err |-> "nil"]

\* ------------------------------------------------------------------------
\* The SQL bridge. The repository holds it in two forms: sql.go stores the
\* 16 bytes, the other stores the dashed text of the UUID. A driver.Value
\* is modelled as its dynamic type and its value.
\* ------------------------------------------------------------------------

DriverNil == [type |-> "nil", val |-> <<>>]

DriverBytes(b) == [type |-> "[]byte", val |-> b]

DriverString(s) == [type |-> "string", val |-> s]

\* sql.go, Value: nil for the nil UUID, otherwise the 16 bytes
ValueBinary(x) ==
    IF x.uuid = Nil THEN [val |-> DriverNil, err |-> "nil"]
    ELSE [val |-> DriverBytes(x.uuid), err |-> "nil"]

\* A Scan that leaves the prefix of the receiver as it was
ScanBinaryKeepsPrefix(x, value) ==
    IF value = DriverNil
    THEN [x |-> [x EXCEPT !.uuid = Nil], err |-> "nil"]
    ELSE IF value.type # "[]byte" \/ Len(value.val) # 16
         THEN [x |-> x, err |-> "failed to scan from database. Invalid XUID bytes"]
    ELSE [x |-> [x EXCEPT !.uuid = value.val], err |-> "nil"]

\* sql.go, Scan: nil or a slice of 16 bytes
ScanBinary(x, value) ==
    IF value = DriverNil
    THEN [x |-> [x EXCEPT !.uuid = Nil, !.prefix = <<>>], err |-> "nil"]
    ELSE IF value.type # "[]byte" \/ Len(value.val) # 16
         THEN [x |-> x, err |-> "failed to scan from database. Invalid XUID bytes"]
    ELSE [x |-> [x EXCEPT !.uuid = value.val, !.prefix = <<>>], err |-> "nil"]

\* A Value that stores String(), the prefix with it
ValueTextTagged(x) ==
    IF x.uuid = Nil THEN [val |-> DriverNil, err |-> "nil"]
    ELSE [val |-> DriverString(String(x)), err |-> "nil"]

\* A Value that stores the base58 text of the UUID
ValueTextBase58(x) ==
    IF x.uuid = Nil THEN [val |-> DriverNil, err |-> "nil"]
    ELSE [val |-> DriverString(base58Encode(x.uuid)), err |-> "nil"]

\* the text form of the bridge, Value: nil for the nil UUID, otherwise the
\* dashed text of the UUID
ValueText(x) ==
    IF x.uuid = Nil THEN [val |-> DriverNil, err |-> "nil"]
    ELSE [val |-> DriverString(UUIDString(x.uuid)), err |-> "nil"]

\* the text form of the bridge, Scan: nil, a string uuid.Parse accepts or a
\* slice of 16 bytes
ScanText(x, value) ==
    IF value = DriverNil
    THEN [x |-> [x EXCEPT !.uuid = Nil, !.prefix = <<>>], err |-> "nil"]
    ELSE IF value.type = "string"
         THEN LET parsed == uuidParse(value.val)
              IN  IF parsed.err # "nil"
                  THEN [x |-> x,
                        err |-> "failed to scan from database. Invalid XUID string"]
                  ELSE [x |-> [x EXCEPT !.uuid = parsed.id, !.prefix = <<>>],
                        err |-> "nil"]
    ELSE IF value.type = "[]byte"
         THEN IF Len(value.val) # 16
              THEN [x |-> x, err |-> "failed to scan from database. Invalid XUID bytes"]
              ELSE [x |-> [x EXCEPT !.uuid = value.val, !.prefix = <<>>], err |-> "nil"]
    ELSE [x |-> x, err |-> "unsupported type to scan as sql value"]

\* the two forms of the bridge
Bridges == {"binary", "text"}

\* Value and Scan of a form of the bridge
Value(bridge, xid) ==
    IF bridge = "binary" THEN ValueBinary(xid) ELSE ValueText(xid)

Scan(bridge, xid, value) ==
    IF bridge = "binary" THEN ScanBinary(xid, value) ELSE ScanText(xid, value)

\* ------------------------------------------------------------------------
\* The state: one identifier held by a client, and the last call made: its
\* name, its input, its result and its error, and for Value and Scan the
\* form of the bridge that ran.
\* ------------------------------------------------------------------------

VARIABLES x, call

vars == <<x, call>>

\* ------------------------------------------------------------------------
\* The inputs of the calls
\* ------------------------------------------------------------------------

\* what uuid.NewV7 and uuid.NewRandom can return: a fresh UUID of the
\* version, or the error of the random source
NewV7Results ==
    {[id |-> UUIDv7, err |-> "nil"], [id |-> UUIDv7Next, err |-> "nil"],
     [id |-> Nil, err |-> "rand: read failed"]}

NewRandomResults ==
    {[id |-> UUIDv4, err |-> "nil"], [id |-> Nil, err |-> "rand: read failed"]}

\* the bytes of the prefixes handed to the constructors and to SetPrefix:
\* a letter and the separator
PrefixBytes == {97, 95}

Prefixes == UNION {[1..n -> PrefixBytes] : n \in 0..MaxPrefixLen}

\* the prefixes of the identifiers handed to the calls as arguments:
\* none, "a_b", "a_" (a trailing separator), a byte that is no UTF-8, and
\* a quote followed by "<"
PeerPrefixes == {<<>>, <<97, 95, 98>>, <<97, 95>>, <<255>>, <<34, 60>>}

Peers == {XUID(v, t) : v \in {Nil, UUIDv4}, t \in PeerPrefixes}

PeerTexts == {String(p) : p \in Peers}

PeerDocs == {MarshalJSON(p).data : p \in Peers}

PeerValues == [b \in Bridges |-> {Value(b, p).val : p \in Peers}]

\* texts that are not the String() of an identifier: the empty string,
\* "invalid_string", "test_invalid0characters", "user_" (nothing after the
\* separator), 15 and 17 times "1" (15 and 17 zero bytes), and 22 times "z"
\* (a number of more than 16 bytes)
OtherTexts ==
    { <<>>,
      <<105, 110, 118, 97, 108, 105, 100, 95, 115, 116, 114, 105, 110, 103>>,
      <<116, 101, 115, 116, 95, 105, 110, 118, 97, 108, 105, 100, 48, 99, 104, 97,
        114, 97, 99, 116, 101, 114, 115>>,
      <<117, 115, 101, 114, 95>>,
      Rep(15, 49), Rep(17, 49), Rep(22, 122) }

\* the texts handed to Parse and IsValid: the String() of an identifier,
\* the same after one more separator, and the other texts
Texts(xid) ==
    PeerTexts \cup {String(xid)}
        \cup {<<95>> \o String(p) : p \in {XUID(UUIDv4, <<>>), XUID(UUIDv4, <<97>>)}}
        \cup OtherTexts

\* documents that are not the MarshalJSON of an identifier: null, true, 12,
\* {}, [], the words "invalid json", a string without its closing quote,
\* and the JSON strings "invalid_xuid_string" and ""
OtherDocs ==
    { <<110, 117, 108, 108>>, <<116, 114, 117, 101>>, <<49, 50>>, <<123, 125>>,
      <<91, 93>>,
      <<105, 110, 118, 97, 108, 105, 100, 32, 106, 115, 111, 110>>,
      <<34, 97>>,
      <<34, 105, 110, 118, 97, 108, 105, 100, 95, 120, 117, 105, 100, 95, 115, 116,
        114, 105, 110, 103, 34>>,
      <<34, 34>> }

\* the documents handed to UnmarshalJSON: the MarshalJSON of an identifier
\* and the other documents
Docs(xid) ==
    PeerDocs \cup {MarshalJSON(xid).data} \cup OtherDocs

\* the values handed to Scan: the Value() of an identifier, 16 bytes, the
\* dashed text of a UUID (as it is, in upper case, in braces, without the
\* dashes), slices of 0, 15 and 17 bytes, the bytes of the dashed text, the
\* strings "" and "invalid-xuid-format", an int64 and a bool
DriverValues(bridge, xid) ==
    PeerValues[bridge] \cup {Value(bridge, xid).val}
        \cup {DriverNil, DriverBytes(UUIDv1), DriverString(UUIDString(UUIDv1)),
              DriverString([i \in 1..36 |->
                  IF UUIDString(UUIDv4)[i] \in 97..122
                  THEN UUIDString(UUIDv4)[i] - 32 ELSE UUIDString(UUIDv4)[i]]),
              DriverString(<<123>> \o UUIDString(UUIDv4) \o <<125>>),
              DriverString(encodeHex(UUIDv4)),
              DriverBytes(<<>>), DriverBytes(Rep(15, 1)), DriverBytes(Rep(17, 1)),
              DriverBytes(UUIDString(UUIDv4)),
              DriverString(<<>>),
              DriverString(<<105, 110, 118, 97, 108, 105, 100, 45, 120, 117, 105,
                             100, 45, 102, 111, 114, 109, 97, 116>>),
              [type |-> "int64", val |-> 42], [type |-> "bool", val |-> TRUE]}

\* ------------------------------------------------------------------------
\* The calls
\* ------------------------------------------------------------------------

Called(name, in, out, err) ==
    [name |-> name, in |-> in, out |-> out, err |-> err, bridge |-> ""]

CalledBridge(bridge, name, in, out, err) ==
    [name |-> name, in |-> in, out |-> out, err |-> err, bridge |-> bridge]

\* a constructor with an error returns XUID{}
NewSortable(prefix, gen) ==
    IF gen.err # "nil" THEN [xid |-> ZeroXUID, err |-> gen.err]
    ELSE [xid |-> XUID(gen.id, prefix), err |-> "nil"]

NewRandom(prefix, gen) ==
    IF gen.err # "nil" THEN [xid |-> ZeroXUID, err |-> gen.err]
    ELSE [xid |-> XUID(gen.id, prefix), err |-> "nil"]

\* New is not supported
New == [xid |-> ZeroXUID, err |-> "method not supported"]

CallNew ==
    /\ x' = New.xid
    /\ call' = Called("New", <<>>, New.xid, New.err)

CallNewWith ==
    \E id \in SampleUUIDs, prefix \in Prefixes :
        /\ x' = NewWith(id, prefix).xid
        /\ call' = Called("NewWith", <<id, prefix>>, x', NewWith(id, prefix).err)

CallNewSortable ==
    \E prefix \in Prefixes, gen \in NewV7Results :
        /\ x' = NewSortable(prefix, gen).xid
        /\ call' = Called("NewSortable", prefix, x', NewSortable(prefix, gen).err)

CallNewRandom ==
    \E prefix \in Prefixes, gen \in NewRandomResults :
        /\ x' = NewRandom(prefix, gen).xid
        /\ call' = Called("NewRandom", prefix, x', NewRandom(prefix, gen).err)

CallNilUUID ==
    /\ x' = NilUUID.xid
    /\ call' = Called("NilUUID", <<>>, x', NilUUID.err)

CallGetUUID ==
    /\ call' = Called("GetUUID", <<>>, GetUUID(x), "nil")
    /\ UNCHANGED x

CallGetPrefix ==
    /\ call' = Called("GetPrefix", <<>>, GetPrefix(x), "nil")
    /\ UNCHANGED x

CallIsSortable ==
    /\ call' = Called("IsSortable", <<>>, IsSortable(x), "nil")
    /\ UNCHANGED x

CallIsRandom ==
    /\ call' = Called("IsRandom", <<>>, IsRandom(x), "nil")
    /\ UNCHANGED x

CallIsEmpty ==
    /\ call' = Called("IsEmpty", <<>>, IsEmpty(x), "nil")
    /\ UNCHANGED x

CallSetPrefix ==
    \E prefix \in Prefixes :
        /\ x' = SetPrefix(x, prefix)
        /\ call' = Called("SetPrefix", prefix, x', "nil")

CallString ==
    /\ call' = Called("String", <<>>, String(x), "nil")
    /\ UNCHANGED x

CallEqual ==
    \E y \in Peers :
        /\ call' = Called("Equal", y, Equal(x, y), "nil")
        /\ UNCHANGED x

\* Parse returns a new identifier and leaves the client's one alone
CallParse ==
    \E idstr \in Texts(x) :
        LET r == Parse(idstr)
        IN  /\ call' = Called("Parse", idstr, r.xid, r.err)
            /\ UNCHANGED x

CallIsValid ==
    \E idstr \in Texts(x) :
        /\ call' = Called("IsValid", idstr, IsValid(idstr), "nil")
        /\ UNCHANGED x

CallMarshalJSON ==
    LET r == MarshalJSON(x)
    IN  /\ call' = Called("MarshalJSON", <<>>, r.data, r.err)
        /\ UNCHANGED x

CallUnmarshalJSON ==
    \E data \in Docs(x) :
        LET r == UnmarshalJSON(x, data)
        IN  /\ x' = r.x
            /\ call' = Called("UnmarshalJSON", data, <<>>, r.err)

CallValue ==
    \E bridge \in Bridges :
        LET r == Value(bridge, x)
        IN  /\ call' = CalledBridge(bridge, "Value", <<>>, r.val, r.err)
            /\ UNCHANGED x

CallScan ==
    \E bridge \in Bridges : \E value \in DriverValues(bridge, x) :
        LET r == Scan(bridge, x, value)
        IN  /\ x' = r.x
            /\ call' = CalledBridge(bridge, "Scan", value, <<>>, r.err)

\* var x XUID
Init ==
    /\ x = ZeroXUID
    /\ call = Called("var", <<>>, <<>>, "nil")

Next ==
    \/ CallNew
    \/ CallNewWith
    \/ CallNewSortable
    \/ CallNewRandom
    \/ CallNilUUID
    \/ CallGetUUID
    \/ CallGetPrefix
    \/ CallIsSortable
    \/ CallIsRandom
    \/ CallIsEmpty
    \/ CallSetPrefix
    \/ CallString
    \/ CallEqual
    \/ CallParse
    \/ CallIsValid
    \/ CallMarshalJSON
    \/ CallUnmarshalJSON
    \/ CallValue
    \/ CallScan

Spec == Init /\ [][Next]_vars

\* ------------------------------------------------------------------------
\* The claims
\* ------------------------------------------------------------------------

\* the operations that build a new identifier for the client
Constructors == {"var", "New", "NewWith", "NewSortable", "NewRandom", "NilUUID"}

\* the part of s after its last "_", all of s when it has none: the one
\* suffix without a "_" that is all of s or follows a "_"
PayloadOf(s) ==
    LET k == CHOOSE k \in 0..Len(s) :
                 /\ \A i \in (k + 1)..Len(s) : s[i] # 95
                 /\ (k = 0 \/ s[k] = 95)
    IN  SubSeq(s, k + 1, Len(s))

\* s is well-formed UTF-8
RECURSIVE ValidUTF8(_)
ValidUTF8(s) ==
    \/ s = <<>>
    \/ utf8Size(s) > 0 /\ ValidUTF8(From(s, utf8Size(s)))

\* C1: a text round trip gives the identifier back. Whenever Parse is
\* called on the String() of an identifier (the client's own or one of the
\* peers; prefixes with none, one or several "_", also a trailing one), it
\* succeeds and returns an identifier with that UUID and that prefix.
C1_TextRoundTrip ==
    \A p \in Peers \cup {x} :
        (call.name = "Parse" /\ call.in = String(p))
            => (call.err = "nil" /\ call.out.uuid = p.uuid /\ call.out.prefix = p.prefix)

\* Parse has run on the String() of an identifier whose UUID starts with
\* zero bytes and whose prefix ends in "_"
C1_Witness ==
    /\ call.name = "Parse"
    /\ x = XUID(UUIDLow, <<97, 95>>)
    /\ call.in = String(x)
    /\ call.out = x

\* C2: Parse fails, with ErrParse, exactly when what follows the last "_"
\* does not decode to 16 bytes; with the error it returns the zero
\* identifier and IsValid is false; in every other case it succeeds and
\* IsValid is true. IsValid itself answers the same question.
C2_ParseFailure ==
    /\ call.name = "Parse" =>
          /\ call.err \in {"nil", ErrParse}
          /\ (call.err = ErrParse) <=> (Len(base58Decode(PayloadOf(call.in))) # 16)
          /\ call.err = ErrParse => (call.out = ZeroXUID /\ ~IsValid(call.in))
          /\ call.err = "nil" => IsValid(call.in)
    /\ call.name = "IsValid" =>
          (call.out <=> (Len(base58Decode(PayloadOf(call.in))) = 16))

\* Parse has failed on "user_", a text with nothing after the separator
C2_Witness ==
    /\ call.name = "Parse"
    /\ call.in = <<117, 115, 101, 114, 95>>
    /\ call.err = ErrParse

\* C3: Equal is equality of the texts, and that is equality of both the
\* UUID and the prefix.
C3_EqualIsBothFields ==
    call.name = "Equal" =>
        /\ call.out <=> (String(x) = String(call.in))
        /\ call.out <=> (x.uuid = call.in.uuid /\ x.prefix = call.in.prefix)

\* Equal has answered false for two identifiers with the same UUID and
\* different prefixes
C3_Witness ==
    /\ call.name = "Equal"
    /\ x.uuid = call.in.uuid
    /\ x.uuid # Nil
    /\ x.prefix # call.in.prefix
    /\ call.out = FALSE

\* C4: Value never fails; it is nil exactly for the nil UUID, whatever the
\* prefix; and it is the same for every prefix the identifier could have.
C4_ValueIgnoresPrefix ==
    call.name = "Value" =>
        /\ call.err = "nil"
        /\ (call.out = DriverNil) <=> (x.uuid = Nil)
        /\ \A t \in Prefixes \cup PeerPrefixes :
               Value(call.bridge, XUID(x.uuid, t)).val = call.out

\* Value has run on an identifier that has a prefix and a UUID other than
\* nil
C4_Witness ==
    /\ call.name = "Value"
    /\ call.bridge = "text"
    /\ x = XUID(UUIDv4, <<97, 95>>)
    /\ call.out = DriverString(UUIDString(UUIDv4))

\* a string that is a text form of a UUID
IsUUIDText(s) == uuidParse(s).err = "nil"

\* C5: Scan succeeds exactly for nil, for a slice of 16 bytes and for a
\* string that is a text form of a UUID.
C5_ScanAcceptance ==
    call.name = "Scan" =>
        ((call.err = "nil") <=>
            \/ call.in = DriverNil
            \/ call.in.type = "[]byte" /\ Len(call.in.val) = 16
            \/ call.in.type = "string" /\ IsUUIDText(call.in.val))

\* the UUID a scanned value carries: nil for nil, the bytes of a slice, and
\* for a string the bytes its hexadecimal digits spell
Carries(u, value) ==
    IF value = DriverNil THEN u = Nil
    ELSE IF value.type = "[]byte" THEN u = value.val
    ELSE encodeHex(u) = lower(SelectSeq(value.val, LAMBDA c : xvalue(c) # 255))

\* C6: after a Scan without an error the prefix is empty and the UUID is
\* the one the value carries.
C6_ScanOverwrites ==
    (call.name = "Scan" /\ call.err = "nil")
        => (x.prefix = <<>> /\ Carries(x.uuid, call.in))

\* Scan has loaded the dashed text of a UUID
C6_Witness ==
    /\ call.name = "Scan"
    /\ call.err = "nil"
    /\ call.in = DriverString(UUIDString(UUIDv1))
    /\ x = XUID(UUIDv1, <<>>)

\* C7: Value never fails, and a Scan of the Value of an identifier p, into
\* whatever identifier, succeeds and leaves the UUID of p and no prefix;
\* SetPrefix with the prefix of p then gives an identifier Equal to p.
C7_StorageRoundTrip ==
    \A p \in Peers :
        /\ Value(call.bridge, p).err = "nil"
        /\ (call.name = "Scan" /\ call.in = Value(call.bridge, p).val) =>
              /\ call.err = "nil"
              /\ x = XUID(p.uuid, <<>>)
              /\ Equal(SetPrefix(x, p.prefix), p)

\* Scan has loaded the Value, in its text form, of an identifier with a
\* prefix
C7_Witness ==
    /\ call.name = "Scan"
    /\ call.bridge = "text"
    /\ call.in = ValueText(XUID(UUIDv4, <<97, 95, 98>>)).val
    /\ call.err = "nil"
    /\ x = XUID(UUIDv4, <<>>)

\* C8 as stated: MarshalJSON is a JSON string that decodes to String(), and
\* UnmarshalJSON of the MarshalJSON of any identifier p succeeds and leaves
\* the UUID and the prefix of p.
C8_JSONRoundTripAll ==
    /\ call.name = "MarshalJSON" =>
          /\ call.err = "nil"
          /\ Head(call.out) = 34
          /\ jsonUnmarshal(call.out) = [res |-> String(x), err |-> "nil"]
    /\ \A p \in Peers :
          (call.name = "UnmarshalJSON" /\ call.in = MarshalJSON(p).data)
              => (call.err = "nil" /\ x = p /\ Equal(x, p))

\* C8 as amended: the same for every identifier whose prefix is
\* well-formed UTF-8.
C8_JSONRoundTripUTF8 ==
    /\ (call.name = "MarshalJSON" /\ ValidUTF8(x.prefix)) =>
          /\ call.err = "nil"
          /\ Head(call.out) = 34
          /\ jsonUnmarshal(call.out) = [res |-> String(x), err |-> "nil"]
    /\ \A p \in Peers :
          (/\ call.name = "UnmarshalJSON"
           /\ call.in = MarshalJSON(p).data
           /\ ValidUTF8(p.prefix))
              => (call.err = "nil" /\ x = p /\ Equal(x, p))

\* UnmarshalJSON has read the MarshalJSON of an identifier whose prefix
\* needs escaping
C8_Witness ==
    /\ call.name = "UnmarshalJSON"
    /\ call.in = MarshalJSON(XUID(UUIDv4, <<34, 60>>)).data
    /\ x = XUID(UUIDv4, <<34, 60>>)

\* the document is a JSON string
IsJSONString(data) ==
    /\ trim(data) # <<>>
    /\ Head(trim(data)) = 34
    /\ jsonUnmarshal(data).err = "nil"

\* the errors of json.Unmarshal
DecodingErrors == {"SyntaxError", "UnmarshalTypeError"}

\* C9 as stated: a document that is no JSON string gives a decoding error,
\* a JSON string that Parse rejects gives ErrParse, and there is no error
\* exactly for a JSON string that Parse accepts.
C9_UnmarshalErrorsAll ==
    call.name = "UnmarshalJSON" =>
        /\ ~IsJSONString(call.in) => call.err \in DecodingErrors
        /\ (IsJSONString(call.in) /\ ~IsValid(jsonUnmarshal(call.in).res))
              => call.err = ErrParse
        /\ (call.err = "nil") <=>
              (IsJSONString(call.in) /\ IsValid(jsonUnmarshal(call.in).res))

\* "null"
JSONNull == <<110, 117, 108, 108>>

\* C9 as amended: the same, except that null gives ErrParse.
C9_UnmarshalErrorsNull ==
    call.name = "UnmarshalJSON" =>
        /\ (~IsJSONString(call.in) /\ trim(call.in) # JSONNull)
              => call.err \in DecodingErrors
        /\ trim(call.in) = JSONNull => call.err = ErrParse
        /\ (IsJSONString(call.in) /\ ~IsValid(jsonUnmarshal(call.in).res))
              => call.err = ErrParse
        /\ (call.err = "nil") <=>
              (IsJSONString(call.in) /\ IsValid(jsonUnmarshal(call.in).res))

\* UnmarshalJSON has been handed a number
C9_Witness ==
    /\ call.name = "UnmarshalJSON"
    /\ call.in = <<49, 50>>
    /\ call.err = "UnmarshalTypeError"

\* C10 as stated: the UUID of the client's identifier changes in no step
\* but a Scan (and the constructors, which make a new identifier).
C10_OnlyScanChangesUUID ==
    [][call'.name \notin (Constructors \cup {"Scan"}) => x'.uuid = x.uuid]_vars

\* C10 as amended: it changes in no step but a Scan or an UnmarshalJSON.
C10_OnlyLoadsChangeUUID ==
    [][call'.name \notin (Constructors \cup {"Scan", "UnmarshalJSON"})
          => x'.uuid = x.uuid]_vars

\* SetPrefix has run on an identifier with a version 7 UUID
C10_Witness ==
    /\ call.name = "SetPrefix"
    /\ x = XUID(UUIDv7, <<97, 95>>)

\* the version marker of a UUID: the high four bits of its seventh byte
VersionMarker(u) == u[7] \div 16

\* C11: IsSortable is true exactly when the version marker of the UUID is 7
\* and IsRandom exactly when it is 4, so that they are never both true; an
\* identifier of NewSortable is sortable and not random, one of NewRandom
\* random and not sortable, one of NewWith from a UUID of another version
\* (the nil UUID too) neither; and no prefix changes either answer.
C11_ModeExclusivity ==
    /\ call.name = "IsSortable" => call.out = (VersionMarker(x.uuid) = 7)
    /\ call.name = "IsRandom" => call.out = (VersionMarker(x.uuid) = 4)
    /\ ~(IsSortable(x) /\ IsRandom(x))
    /\ (call.name = "NewSortable" /\ call.err = "nil")
          => (IsSortable(call.out) /\ ~IsRandom(call.out))
    /\ (call.name = "NewRandom" /\ call.err = "nil")
          => (IsRandom(call.out) /\ ~IsSortable(call.out))
    /\ (call.name = "NewWith" /\ VersionMarker(call.in[1]) \notin {4, 7})
          => (~IsSortable(call.out) /\ ~IsRandom(call.out))
    /\ \A prefix \in Prefixes \cup PeerPrefixes :
          /\ IsSortable(XUID(x.uuid, prefix)) = IsSortable(x)
          /\ IsRandom(XUID(x.uuid, prefix)) = IsRandom(x)

\* IsRandom has answered false for an identifier with a prefix and a UUID
\* of version 1
C11_Witness ==
    /\ call.name = "IsRandom"
    /\ call.out = FALSE
    /\ x = XUID(UUIDv1, <<97, 95>>)

\* C12: SetPrefix(p) leaves the UUID of the identifier as it was and makes
\* its prefix p, whatever p (the empty string too) and whatever the prefix
\* before; the identifier it returns has that UUID and the prefix p.
C12_SetPrefixReplaces ==
    [][call'.name = "SetPrefix"
          => /\ x'.uuid = x.uuid
             /\ x'.prefix = call'.in
             /\ call'.out.uuid = x.uuid
             /\ call'.out.prefix = call'.in]_vars

\* SetPrefix("") has run on an identifier with the version 4 UUID
C12_Witness ==
    /\ call.name = "SetPrefix"
    /\ call.in = <<>>
    /\ x = XUID(UUIDv4, <<>>)

\* all 16 bytes of the UUID are zero
AllZero(u) == \A i \in 1..16 : u[i] = 0

\* C13: IsEmpty(x) is true exactly when the 16 bytes of the UUID of x are
\* zero, whatever the prefix; it is true of NilUUID() and of an identifier
\* that Scan has loaded from NULL, and false of every identifier of a
\* successful NewSortable or NewRandom.
C13_Emptiness ==
    /\ call.name = "IsEmpty" => call.out = AllZero(x.uuid)
    /\ \A prefix \in Prefixes \cup PeerPrefixes :
          IsEmpty(XUID(x.uuid, prefix)) = AllZero(x.uuid)
    /\ call.name = "NilUUID" => IsEmpty(call.out)
    /\ (call.name = "Scan" /\ call.in = DriverNil /\ call.err = "nil")
          => IsEmpty(x)
    /\ (call.name \in {"NewSortable", "NewRandom"} /\ call.err = "nil")
          => ~IsEmpty(call.out)

\* IsEmpty has answered true for an identifier with the nil UUID and a
\* prefix
C13_Witness ==
    /\ call.name = "IsEmpty"
    /\ call.out = TRUE
    /\ x = XUID(Nil, <<97>>)

\* a < b for two strings of bytes, as Go compares strings: at the first
\* place where they differ, or a is a proper prefix of b
LexLess(a, b) ==
    \E i \in 1..Len(b) :
        /\ \A j \in 1..(i - 1) : j <= Len(a) /\ a[j] = b[j]
        /\ (i > Len(a) \/ a[i] < b[i])

\* the String() of the identifier with the UUID u and the prefix of x
Sibling(u) == String(XUID(u, x.prefix))

\* C14 as stated: of two identifiers with the same prefix, the one with
\* the smaller UUID (byte by byte) has the smaller String().
C14_TextOrderAll ==
    call.name = "String" =>
        \A u \in SampleUUIDs :
            /\ LexLess(u, x.uuid) => LexLess(Sibling(u), call.out)
            /\ LexLess(x.uuid, u) => LexLess(call.out, Sibling(u))

\* C14 as amended: so it is when the two String() have the same length.
C14_TextOrderSameLength ==
    call.name = "String" =>
        \A u \in SampleUUIDs :
            Len(Sibling(u)) = Len(call.out) =>
                /\ LexLess(u, x.uuid) => LexLess(Sibling(u), call.out)
                /\ LexLess(x.uuid, u) => LexLess(call.out, Sibling(u))

\* String() has run on the later of the two version 7 identifiers, with a
\* prefix, and the String() of the earlier one has the same length
C14_Witness ==
    /\ call.name = "String"
    /\ x = XUID(UUIDv7Next, <<97>>)
    /\ LexLess(UUIDv7, x.uuid)
    /\ Len(Sibling(UUIDv7)) = Len(call.out)

\* C15: a Scan or an UnmarshalJSON that returns an error leaves the UUID
\* and the prefix of the receiver as they were before the call.
C15_FailedLoadKeepsReceiver ==
    [][(call'.name \in {"Scan", "UnmarshalJSON"} /\ call'.err # "nil")
          => x' = x]_vars

\* UnmarshalJSON has failed on a JSON string that Parse rejects, and the
\* receiver has a UUID and a prefix
C15_Witness ==
    /\ call.name = "UnmarshalJSON"
    /\ call.err = ErrParse
    /\ call.in # JSONNull
    /\ x = XUID(UUIDv7, <<97>>)

\* Scan has failed in each form of the bridge on a receiver with a UUID
\* and a prefix
C15_ScanFailed ==
    /\ call.name = "Scan"
    /\ call.err # "nil"
    /\ x = XUID(UUIDv7, <<97>>)

\* C16 as stated: every text that Parse accepts is the String() of the
\* identifier Parse returns for it, a text that begins with its only "_"
\* too.
C16_ParseCanonicalAll ==
    (call.name = "Parse" /\ call.err = "nil") => String(call.out) = call.in

\* C16 as amended: so it is unless the last "_" of the text is its first
\* byte; such a text is accepted with the empty prefix, and the String()
\* of the identifier is the text without that "_".
C16_ParseCanonicalUnlessLeading ==
    (call.name = "Parse" /\ call.err = "nil") =>
        IF LastIndex(call.in, 95) = 0
        THEN /\ call.out.prefix = <<>>
             /\ String(call.out) = Tail(call.in)
        ELSE String(call.out) = call.in

\* Parse has accepted a text with two separators
C16_Witness ==
    /\ call.name = "Parse"
    /\ call.err = "nil"
    /\ call.in = String(XUID(UUIDv4, <<97, 95, 98>>))
    /\ LastIndex(call.in, 95) = 3

====
